---- MODULE Spec2Model ----
(***************************************************************************)
(* Model of the cipherseal keyed-LSB image watermark codec                 *)
(* (src/service/core/watermarker.py) and of the CLI / HTTP front ends that *)
(* call it (src/service/cli.py, src/service/api/main.py).                  *)
(*                                                                         *)
(* Text is a sequence of Unicode code points, a bit string is a sequence   *)
(* of 0/1, a key is the sequence of its UTF-8 bytes.  An image is a record *)
(* [w, h, px] whose px[y*w + x + 1] is the <<r, g, b>> triple of pixel     *)
(* (x, y).                                                                 *)
(***************************************************************************)
EXTENDS Integers, Sequences, FiniteSets, TLC

(***************************************************************************)
(* Bounds of the model.                                                    *)
(***************************************************************************)
\* longest payload, in characters
MaxPayloadChars == 1
\* largest expected_max_len_chars hint passed to detection
MaxHint == 2
\* number of core operations run one after another in one behaviour
MaxOps == 2

(***************************************************************************)
(* Constants of the program.                                               *)
(***************************************************************************)
\* DELIMITER = "1111111111111110"
DELIMITER == <<1, 1, 1, 1, 1, 1, 1, 1, 1, 1, 1, 1, 1, 1, 1, 0>>

\* U+FFFD, what decode(errors='replace') puts for a malformed sequence
REPLACEMENT == 65533

\* a value that is no text: Python's None
None == <<-1>>

\* Python's False and True, as values a function returns (detect_watermark_text
\* returns False where a text or None is expected)
PyFalse == <<-2>>
PyTrue == <<-3>>

(***************************************************************************)
(* Small arithmetic helpers.                                               *)
(***************************************************************************)
Min(a, b) == IF a < b THEN a ELSE b

Pow2(n) == 2 ^ n

\* int.bit_length(), for n < 2^16
BitLength(n) == CHOOSE k \in 0..16 : n < Pow2(k) /\ (k = 0 \/ n >= Pow2(k - 1))

(***************************************************************************)
(* _str_to_binary: UTF-8 encode, then format(byte, '08b') per byte.        *)
(***************************************************************************)
\* str.encode('utf-8') raises on a lone surrogate
Encodable(text) == \A i \in 1..Len(text) : text[i] < 55296 \/ text[i] > 57343

Utf8Char(cp) ==
    IF cp < 128 THEN <<cp>>
    ELSE IF cp < 2048 THEN <<192 + (cp \div 64), 128 + (cp % 64)>>
    ELSE IF cp < 65536
         THEN <<224 + (cp \div 4096), 128 + ((cp \div 64) % 64), 128 + (cp % 64)>>
         ELSE <<240 + (cp \div 262144), 128 + ((cp \div 4096) % 64),
                128 + ((cp \div 64) % 64), 128 + (cp % 64)>>

RECURSIVE Utf8Encode(_)
Utf8Encode(text) ==
    IF text = <<>> THEN <<>> ELSE Utf8Char(Head(text)) \o Utf8Encode(Tail(text))

\* mutant: the bits of a byte, least significant first
ByteBitsLsbFirst(b) == [i \in 1..8 |-> (b \div Pow2(i - 1)) % 2]

\* format(byte, '08b'): most significant bit first
ByteBits(b) == [i \in 1..8 |-> (b \div Pow2(8 - i)) % 2]

RECURSIVE BytesToBits(_)
BytesToBits(bs) ==
    IF bs = <<>> THEN <<>> ELSE ByteBits(Head(bs)) \o BytesToBits(Tail(bs))

str_to_binary(text) == BytesToBits(Utf8Encode(text))

(***************************************************************************)
(* _binary_to_str: cut to whole bytes, int(segment, 2) per byte, then      *)
(* bytes.decode('utf-8', errors='replace').                                *)
(***************************************************************************)
\* int(byte_segment, 2)
BitsToByte(bits, i) ==
    128 * bits[i] + 64 * bits[i + 1] + 32 * bits[i + 2] + 16 * bits[i + 3]
    + 8 * bits[i + 4] + 4 * bits[i + 5] + 2 * bits[i + 6] + bits[i + 7]

BitsToBytes(bits) ==
    [k \in 1..(Len(bits) \div 8) |-> BitsToByte(bits, 8 * (k - 1) + 1)]

IsCont(b) == b >= 128 /\ b <= 191

\* number of continuation bytes a lead byte announces; 0 for an invalid lead
Need(b) ==
    IF b >= 194 /\ b <= 223 THEN 1
    ELSE IF b >= 224 /\ b <= 239 THEN 2
    ELSE IF b >= 240 /\ b <= 244 THEN 3
    ELSE 0

\* the range the first continuation byte must lie in
SecondOk(b, c) ==
    IF b = 224 THEN c >= 160 /\ c <= 191
    ELSE IF b = 237 THEN c >= 128 /\ c <= 159
    ELSE IF b = 240 THEN c >= 144 /\ c <= 191
    ELSE IF b = 244 THEN c >= 128 /\ c <= 143
    ELSE IsCont(c)

LeadBits(b) == IF Need(b) = 1 THEN b % 32 ELSE IF Need(b) = 2 THEN b % 16 ELSE b % 8

\* how many bytes of the sequence starting at i are well formed:
\* Need(b) + 1 when the whole sequence is, fewer when it breaks off
RECURSIVE GoodPrefix(_, _, _)
GoodPrefix(bs, i, k) ==
    IF k > Need(bs[i]) THEN k
    ELSE IF i + k > Len(bs) THEN k
    ELSE IF (k = 1 /\ ~SecondOk(bs[i], bs[i + k])) \/ (k > 1 /\ ~IsCont(bs[i + k]))
         THEN k
         ELSE GoodPrefix(bs, i, k + 1)

RECURSIVE CodePoint(_, _, _, _)
CodePoint(bs, i, k, acc) ==
    IF k > Need(bs[i]) THEN acc
    ELSE CodePoint(bs, i, k + 1, acc * 64 + (bs[i + k] % 64))

RECURSIVE Utf8Decode(_, _)
Utf8Decode(bs, i) ==
    IF i > Len(bs) THEN <<>>
    ELSE LET b == bs[i] IN
         IF b < 128 THEN <<b>> \o Utf8Decode(bs, i + 1)
         ELSE IF Need(b) = 0 THEN <<REPLACEMENT>> \o Utf8Decode(bs, i + 1)
         ELSE LET g == GoodPrefix(bs, i, 1) IN
              IF g = Need(b) + 1
              THEN <<CodePoint(bs, i, 1, LeadBits(b))>> \o Utf8Decode(bs, i + g)
              ELSE <<REPLACEMENT>> \o Utf8Decode(bs, i + g)

binary_to_str(bits) == Utf8Decode(BitsToBytes(bits), 1)

(***************************************************************************)
(* _get_pixel_sequence.                                                    *)
(*                                                                         *)
(* A seed is the pair <<high 16 bits, low 16 bits>> of the 32-bit value,   *)
(* so that seed * 31 + byte is computed within signed 32-bit integers.     *)
(***************************************************************************)
\* mutant: the fold with 33 as its multiplier
FoldStep33(seed, byte) ==
    LET lo == seed[2] * 33 + byte
        hi == seed[1] * 33 + (lo \div 65536)
    IN  <<hi % 65536, lo % 65536>>

\* seed_val = (seed_val * 31 + char_code) & 0xFFFFFFFF
FoldStep(seed, byte) ==
    LET lo == seed[2] * 31 + byte
        hi == seed[1] * 31 + (lo \div 65536)
    IN  <<hi % 65536, lo % 65536>>

\* mutant: the bytes folded last to first
RECURSIVE FoldFromReversed(_, _)
FoldFromReversed(seed, bytes) ==
    IF bytes = <<>> THEN seed
    ELSE FoldFromReversed(FoldStep(seed, bytes[Len(bytes)]),
                          SubSeq(bytes, 1, Len(bytes) - 1))

RECURSIVE FoldFrom(_, _)
FoldFrom(seed, bytes) ==
    IF bytes = <<>> THEN seed ELSE FoldFrom(FoldStep(seed, Head(bytes)), Tail(bytes))

\* seed_val = 0, then one FoldStep per byte of the key, in order
SeedOf(key) == FoldFrom(<<0, 0>>, key)

(***************************************************************************)
(* random.Random(seed_val).  The standard library's generator is outside   *)
(* the repository; it is modelled by a 16-bit full-period linear           *)
(* congruential generator: a deterministic function of the seed whose      *)
(* every draw advances the state.  _randbelow and shuffle are the standard *)
(* library's algorithms (rejection sampling on getrandbits(k) and the      *)
(* descending Fisher-Yates loop).                                          *)
(***************************************************************************)
RngSeed(seed) == (seed[1] * 31 + seed[2]) % 65536

RngNext(s) == (s * 25173 + 13849) % 65536

\* getrandbits(k): the top k bits of the next output
GetRandBits(s, k) == RngNext(s) \div Pow2(16 - k)

\* r = getrandbits(k); while r >= n: r = getrandbits(k)
\* gives <<r, generator state after the draws>>
RECURSIVE RandBelowBits(_, _, _)
RandBelowBits(s, n, k) ==
    IF GetRandBits(s, k) < n THEN <<GetRandBits(s, k), RngNext(s)>>
    ELSE RandBelowBits(RngNext(s), n, k)

RandBelow(s, n) == RandBelowBits(s, n, BitLength(n))

\* mutant: x[i] = x[j], without the exchange
SwapOverwrite(x, i, j) == [x EXCEPT ![i + 1] = x[j + 1]]

\* x[i], x[j] = x[j], x[i]   (i, j are Python's 0-based indices)
Swap(x, i, j) == [x EXCEPT ![i + 1] = x[j + 1], ![j + 1] = x[i + 1]]

\* for i in reversed(range(1, len(x))): j = randbelow(i + 1); swap
\* gives <<shuffled list, generator state afterwards>>
RECURSIVE ShuffleFrom(_, _, _)
ShuffleFrom(x, s, i) ==
    IF i < 1 THEN <<x, s>>
    ELSE LET d == RandBelow(s, i + 1)
         IN  IF x[d[1] + 1] = x[i + 1]
             THEN \* exchanging equal entries leaves the list as it is
                  ShuffleFrom(x, d[2], i - 1)
             ELSE ShuffleFrom(Swap(x, i, d[1]), d[2], i - 1)

Shuffle(x, s) == ShuffleFrom(x, s, Len(x) - 1)

\* for y in range(height): for x in range(width): append((x, y))
PixelCoords(width, height) ==
    [n \in 1..(width * height) |-> <<(n - 1) % width, (n - 1) \div width>>]

\* for y in range(height): for x in range(width): for c in range(3):
\*     append((x, y, c))
Locations(width, height) ==
    [n \in 1..(width * height * 3) |->
        <<((n - 1) \div 3) % width, (n - 1) \div (3 * width), (n - 1) % 3>>]

\* the generator state when the location list is shuffled: rng has already
\* shuffled pixel_coords
RngBeforeLocations(width, height, key) ==
    Shuffle(PixelCoords(width, height), RngSeed(SeedOf(key)))[2]

get_pixel_sequence(width, height, key) ==
    Shuffle(Locations(width, height), RngBeforeLocations(width, height, key))[1]

\* api/watermarker.py: for y: for x: for c: append((y_coord, x_coord, c))
ApiLocations(width, height) ==
    [n \in 1..(width * height * 3) |->
        <<(n - 1) \div (3 * width), ((n - 1) \div 3) % width, (n - 1) % 3>>]

\* api/watermarker.py: _get_pixel_sequence, one shuffle by the fresh generator
api_get_pixel_sequence(width, height, key) ==
    Shuffle(ApiLocations(width, height), RngSeed(SeedOf(key)))[1]

(***************************************************************************)
(* Inputs of the model.                                                    *)
(***************************************************************************)
\* 'DEL' (1 byte), 'e-acute' (2 bytes), 'euro' (3 bytes), a lone surrogate
Alphabet == {127, 233, 8364, 55296}

Payloads == UNION {[1..k -> Alphabet] : k \in 0..MaxPayloadChars}

\* "Aa" and "BB" fold to the same seed, "k1" to another one
KeyAa == <<65, 97>>
KeyBB == <<66, 66>>
KeyK1 == <<107, 49>>
CoreKeys == {KeyAa, KeyBB, KeyK1}

\* os.environ.get() of a variable that is not set: None
Absent == <<-1>>

Hints == 0..MaxHint

\* the paths a caller of the codec passes
CorePaths == {"in.png", "out.png", "out.jpg", "out"}
OutPaths == {"out.png", "out.jpg", "out"}

\* the paths tempfile.mkstemp gives an API request
TempPaths == {"tmp_input.png", "tmp_watermarked.png", "tmp_input.txt",
              "tmp_watermarked.txt"}

Paths == CorePaths \cup TempPaths

\* a path variable that is None
NoPath == ""

\* os.path.splitext(path)[1].lower()
Ext(path) ==
    IF path \in {"in.png", "out.png", "tmp_input.png", "tmp_watermarked.png"}
    THEN ".png"
    ELSE IF path = "out.jpg" THEN ".jpg"
    ELSE IF path \in {"tmp_input.txt", "tmp_watermarked.txt"} THEN ".txt"
    ELSE ""

\* a file of the disk: absent, not an image, or an RGB image
NoFile == [kind |-> "none", w |-> 0, h |-> 0, px |-> <<>>]
Corrupt == [kind |-> "corrupt", w |-> 0, h |-> 0, px |-> <<>>]
\* a file of zero bytes, as mkstemp creates it
Empty == [kind |-> "empty", w |-> 0, h |-> 0, px |-> <<>>]
\* a file of UTF-8 text
TextFile == [kind |-> "text", w |-> 0, h |-> 0, px |-> <<>>]

\* the channel value of slot n of a carrier
PatternValue(pat, n) == IF pat = "white" THEN 255 ELSE (n * 37 + 11) % 256

Carrier(w, h, pat) ==
    [kind |-> "image", w |-> w, h |-> h,
     px |-> [i \in 1..(w * h) |->
               <<PatternValue(pat, 3 * i - 2), PatternValue(pat, 3 * i - 1),
                 PatternValue(pat, 3 * i)>>]]

\* 0, 24 and 42 slots
Dims == {<<0, 0>>, <<4, 2>>, <<2, 7>>}

Carriers == {Carrier(d[1], d[2], pat) : d \in Dims, pat \in {"white", "mixed"}}

(***************************************************************************)
(* State.                                                                  *)
(***************************************************************************)
VARIABLES
    Image,             \* the PIL import succeeded (Image is not None)
    disk,              \* path -> file
    pc,                \* position of the running core operation
    call,              \* its arguments
    pixels,            \* img / pixels: the image in memory
    binary_watermark,  \* add: payload bits + DELIMITER
    pixel_sequence,    \* the traversal order
    count,             \* embedded_bits_count / extracted_bits_count
    extracted,         \* detect: binary_watermark_extracted
    ret,               \* the value returned
    kind,              \* which kind of outcome the return statement stands for
    cause,             \* and what raised, for an except branch
    origin,            \* history: path -> the embed that last wrote the file
    returned,          \* history: the <<kind, value>> pairs add has returned
    nops               \* operations started so far

coreVars == <<Image, disk, pc, call, pixels, binary_watermark, pixel_sequence,
              count, extracted, ret, kind, cause, origin, returned, nops>>

\* the generator applied on its own
VARIABLES
    gwidth,            \* width
    gheight,           \* height
    gkey,              \* secret_key_string.encode('utf-8')
    gcalls,            \* the sequences returned so far, one per call
    gapicalls          \* the same for the copy in api/watermarker.py

genVars == <<gwidth, gheight, gkey, gcalls, gapicalls>>

\* the process and its environment
VARIABLES
    proc,              \* which front end the process runs: "api" or "cli"
    environ,           \* os.environ.get(SECRET_KEY_ENV_VAR)
    TextBlindWatermark, \* the text_blind_watermark import succeeded
    ffmpeg,            \* the ffmpeg import succeeded
    nruns              \* API requests / CLI runs started so far

envVars == <<proc, environ, TextBlindWatermark, ffmpeg, nruns>>

\* api/main.py
VARIABLES
    WATERMARKER_MASTER_KEY,
    CORE_LIBS_AVAILABLE,
    hpc,               \* position of the request handler
    req,               \* the request it serves
    input_path,
    output_path,
    status,            \* status code of the response, 0 before there is one
    detail,            \* detail of the HTTPException raised
    body,              \* content of a 200 response
    tasks,             \* paths handed to background_tasks for _cleanup_files
    created            \* history: temporary files the request has created

apiVars == <<WATERMARKER_MASTER_KEY, CORE_LIBS_AVAILABLE, hpc, req, input_path,
             output_path, status, detail, body, tasks, created>>

\* cli.py
VARIABLES
    cpc,               \* position of main_cli
    args,              \* parser.parse_args()
    secret_key,
    watermark_to_embed,
    printed,           \* the last line main_cli printed
    exit_code

cliVars == <<cpc, args, secret_key, watermark_to_embed, printed, exit_code>>

svcVars == <<envVars, apiVars, cliVars>>

\* what no step of a core operation touches
others == <<genVars, svcVars>>

\* the state of a running core operation
coreRun == <<Image, pc, call, pixels, binary_watermark, pixel_sequence, count,
             extracted, ret, kind, cause, returned, nops>>

locals == <<pixels, binary_watermark, pixel_sequence, count, extracted>>

NoCall == [op |-> "none", input |-> "", output |-> "", text |-> <<>>,
           key |-> <<>>, hint |-> 0]

NoOrigin == [set |-> FALSE, text |-> <<>>, key |-> <<>>, lossless |-> FALSE,
             chain |-> 0, longest |-> 0]

CoreIdle ==
    /\ pc = "idle"
    /\ call = NoCall
    /\ pixels = NoFile
    /\ binary_watermark = <<>>
    /\ pixel_sequence = <<>>
    /\ count = 0
    /\ extracted = <<>>
    /\ ret = None
    /\ kind = "none"
    /\ cause = "none"
    /\ origin = [p \in Paths |-> NoOrigin]
    /\ returned = {}
    /\ nops = 0

\* _cleanup_files(*paths): os.remove every path that is set and exists
Removed(d, paths) == [p \in Paths |-> IF p \in paths THEN NoFile ELSE d[p]]

\* the history of a path that is removed or rewritten from outside the codec
Forgotten(o, paths) == [p \in Paths |-> IF p \in paths THEN NoOrigin ELSE o[p]]

(***************************************************************************)
(* add_watermark_image                                                     *)
(***************************************************************************)
Slots(img) == img.w * img.h * 3

\* pixels[x, y]
PixelIndex(img, loc) == loc[2] * img.w + loc[1] + 1

\* mutant: value | bit, the low bit is never cleared
SetLsbOrOnly(value, bit) == IF value % 2 = 1 THEN value ELSE value + bit

\* mutant: (value & ~3) | bit, the second bit is lost as well
SetLowTwoBits(value, bit) == (value - (value % 4)) + bit

\* (value & ~1) | bit
SetLsb(value, bit) == (value - (value % 2)) + bit

\* r, g, b = pixels[x, y]; set the LSB of the chosen channel;
\* pixels[x, y] = (r, g, b)
WriteBit(img, loc, bit) ==
    [img EXCEPT !.px[PixelIndex(img, loc)][loc[3] + 1] = SetLsb(@, bit)]

\* str(channel & 1)
ReadBit(img, loc) == img.px[PixelIndex(img, loc)][loc[3] + 1] % 2

\* mutant: the capacity check off by one
CapacityExceededOffByOne(len, total) == len >= total

\* if watermark_len_bits > total_bits_available
CapacityExceeded(len, total) == len > total

\* a return statement: the value goes to the caller, the locals are gone
Return(value, why, what) ==
    /\ ret' = value
    /\ kind' = why
    /\ cause' = what
    /\ pc' = "done"
    /\ returned' = IF call.op = "add" THEN returned \cup {<<why, value>>} ELSE returned
    /\ pixels' = NoFile
    /\ binary_watermark' = <<>>
    /\ pixel_sequence' = <<>>
    /\ count' = 0
    /\ extracted' = <<>>

\* a caller enters add_watermark_image(input, output, text, key)
StartAdd(input, output, text, key) ==
    /\ pc \in {"idle", "done"}
    /\ nops' = nops + 1
    /\ call' = [op |-> "add", input |-> input, output |-> output, text |-> text,
                key |-> key, hint |-> 0]
    /\ pc' = "add_begin"
    /\ ret' = None
    /\ kind' = "none"
    /\ cause' = "none"
    /\ UNCHANGED <<Image, disk, origin, returned, locals>>

\* lines 104-122: everything before the embedding loop
AddBegin ==
    /\ pc = "add_begin"
    /\ LET file == disk[call.input]
           bits == str_to_binary(call.text) \o DELIMITER
           seq  == get_pixel_sequence(file.w, file.h, call.key)
       IN  IF ~Image THEN Return(PyFalse, "MissingDependency", "none")
           ELSE IF file.kind = "none" THEN Return(PyFalse, "NotFound", "none")
           ELSE IF file.kind # "image" THEN Return(PyFalse, "UnexpectedFailure", "open")
           ELSE IF ~Encodable(call.text)
           THEN Return(PyFalse, "UnexpectedFailure", "encode")
           ELSE IF CapacityExceeded(Len(bits), Slots(file))
           THEN Return(PyFalse, "InsufficientCapacity", "none")
           ELSE IF call.key = Absent
           THEN \* None has no encode(): AttributeError
                Return(PyFalse, "UnexpectedFailure", "key")
           ELSE IF Len(bits) > Len(seq)
           THEN Return(PyFalse, "InsufficientCapacity", "none")
           ELSE /\ pixels' = file
                /\ binary_watermark' = bits
                /\ pixel_sequence' = seq
                /\ pc' = "add_loop"
                /\ UNCHANGED <<ret, kind, cause, returned, count, extracted>>
    /\ UNCHANGED <<Image, disk, call, origin, nops, others>>

\* mutant: the image is saved in every iteration of the loop
AddLoopStepSaving ==
    /\ pc = "add_loop"
    /\ count < Len(pixel_sequence)
    /\ count < Len(binary_watermark)
    /\ pixels' = WriteBit(pixels, pixel_sequence[count + 1], binary_watermark[count + 1])
    /\ count' = count + 1
    /\ disk' = [disk EXCEPT ![call.output] = pixels']
    /\ UNCHANGED <<Image, pc, call, binary_watermark, pixel_sequence,
                   extracted, ret, kind, cause, origin, returned, nops, others>>

\* lines 125-139: one iteration that embeds a bit
AddLoopStep ==
    /\ pc = "add_loop"
    /\ count < Len(pixel_sequence)
    /\ count < Len(binary_watermark)
    /\ pixels' = WriteBit(pixels, pixel_sequence[count + 1], binary_watermark[count + 1])
    /\ count' = count + 1
    /\ UNCHANGED <<Image, disk, pc, call, binary_watermark, pixel_sequence,
                   extracted, ret, kind, cause, origin, returned, nops, others>>

\* lines 140-144: the loop ends (break, or the sequence is exhausted)
AddLoopExit ==
    /\ pc = "add_loop"
    /\ count >= Len(pixel_sequence) \/ count >= Len(binary_watermark)
    /\ IF count < Len(binary_watermark)
       THEN Return(PyFalse, "Incomplete", "none")
       ELSE /\ pc' = "add_save"
            /\ UNCHANGED <<ret, kind, cause, returned, locals>>
    /\ UNCHANGED <<Image, disk, call, origin, nops, others>>

\* lines 156-158: an exception raised inside the loop
AddLoopFault ==
    /\ pc = "add_loop"
    /\ count < Len(binary_watermark)
    /\ Return(PyFalse, "UnexpectedFailure", "loop")
    /\ UNCHANGED <<Image, disk, call, origin, nops, others>>

\* if output_format in ['.jpg', '.jpeg']: the format is lossy
Lossy(ext) == ext \in {".jpg", ".jpeg"}

\* what a lossy encoder may leave of the channel values: by luck the same
\* values, or values whose low bit is gone
LossyOutcomes(img) ==
    {img, [img EXCEPT !.px = [i \in DOMAIN img.px |->
                                 [c \in 1..3 |-> SetLsb(img.px[i][c], 0)]]]}

\* the files img.save(path) can leave at path
Saved(img, ext) == IF Lossy(ext) THEN LossyOutcomes(img) ELSE {img}

\* history of the image an embed under key starts from: how many embeds
\* under that key, one on top of the other, it already carries, and the
\* longest of their payloads in bytes
Carried(o, key) ==
    IF o.set /\ o.key = key
    THEN [chain |-> o.chain, longest |-> IF Len(Utf8Encode(o.text)) > o.longest
                                         THEN Len(Utf8Encode(o.text))
                                         ELSE o.longest]
    ELSE [chain |-> 0, longest |-> 0]

\* lines 146-152: img.save(output_image_path); return True
AddSave ==
    /\ pc = "add_save"
    /\ IF Ext(call.output) \notin {".png", ".jpg", ".jpeg"}
       THEN \* PIL cannot tell the format: ValueError, nothing is written
            /\ Return(PyFalse, "UnexpectedFailure", "save")
            /\ UNCHANGED <<disk, origin>>
       ELSE /\ \E f \in Saved(pixels, Ext(call.output)) :
                  disk' = [disk EXCEPT ![call.output] = f]
            /\ origin' = [origin EXCEPT ![call.output] =
                            [set |-> TRUE, text |-> call.text, key |-> call.key,
                             lossless |-> ~Lossy(Ext(call.output)),
                             chain |-> Carried(origin[call.input], call.key).chain + 1,
                             longest |-> Carried(origin[call.input], call.key).longest]]
            /\ Return(PyTrue, "ok", "none")
    /\ UNCHANGED <<Image, call, nops, others>>

(***************************************************************************)
(* detect_watermark_image                                                  *)
(***************************************************************************)
\* mutant: the window without the factor 2
MaxBitsNoMargin(hint) == (hint * 8) + 16

\* (expected_max_len_chars * 8 * 2) + len(DELIMITER)
MaxBitsToExtract(hint) == (hint * 8 * 2) + Len(DELIMITER)

\* mutant: a match needs at least one bit before the delimiter
EndsWithDelimiterStrict(bits) ==
    /\ Len(bits) > 16
    /\ SubSeq(bits, Len(bits) - 15, Len(bits)) = <<1, 1, 1, 1, 1, 1, 1, 1, 1, 1, 1, 1, 1, 1, 1, 0>>

\* binary_watermark_extracted.endswith(DELIMITER)
EndsWithDelimiter(bits) ==
    /\ Len(bits) >= Len(DELIMITER)
    /\ SubSeq(bits, Len(bits) - Len(DELIMITER) + 1, Len(bits)) = DELIMITER

\* binary_watermark_extracted[:-len(DELIMITER)]
PayloadPart(bits) == SubSeq(bits, 1, Len(bits) - Len(DELIMITER))

\* a caller enters detect_watermark_image(input, key, hint)
StartDetect(input, key, hint) ==
    /\ pc \in {"idle", "done"}
    /\ nops' = nops + 1
    /\ call' = [op |-> "detect", input |-> input, output |-> "", text |-> <<>>,
                key |-> key, hint |-> hint]
    /\ pc' = "det_begin"
    /\ ret' = None
    /\ kind' = "none"
    /\ cause' = "none"
    /\ UNCHANGED <<Image, disk, origin, returned, locals>>

\* lines 166-178: everything before the extraction loop
DetectBegin ==
    /\ pc = "det_begin"
    /\ LET file == disk[call.input]
       IN  IF ~Image THEN Return(None, "MissingDependency", "none")
           ELSE IF file.kind = "none" THEN Return(None, "NotFound", "none")
           ELSE IF file.kind # "image" THEN Return(None, "UnexpectedFailure", "open")
           ELSE IF call.key = Absent
           THEN Return(None, "UnexpectedFailure", "key")
           ELSE /\ pixels' = file
                /\ pixel_sequence' = get_pixel_sequence(file.w, file.h, call.key)
                /\ pc' = "det_loop"
                /\ UNCHANGED <<ret, kind, cause, returned, binary_watermark, count,
                               extracted>>
    /\ UNCHANGED <<Image, disk, call, origin, nops, others>>

\* mutant: a match is taken only when no later one lies in the window
DetectLoopStepLastMatch ==
    /\ pc = "det_loop"
    /\ count < Len(pixel_sequence)
    /\ count < MaxBitsToExtract(call.hint)
    /\ LET bits == Append(extracted, ReadBit(pixels, pixel_sequence[count + 1]))
           last == Min(Len(pixel_sequence), MaxBitsToExtract(call.hint))
           later == \E n \in (count + 2)..last :
                       EndsWithDelimiter([i \in 1..n |->
                                            ReadBit(pixels, pixel_sequence[i])])
       IN  IF EndsWithDelimiter(bits) /\ ~later
           THEN Return(binary_to_str(PayloadPart(bits)), "ok", "none")
           ELSE /\ extracted' = bits
                /\ count' = count + 1
                /\ UNCHANGED <<pc, ret, kind, cause, returned, pixels,
                               binary_watermark, pixel_sequence>>
    /\ UNCHANGED <<Image, disk, call, origin, nops, others>>

\* lines 179-195: one iteration that reads a bit, and returns on a match
DetectLoopStep ==
    /\ pc = "det_loop"
    /\ count < Len(pixel_sequence)
    /\ count < MaxBitsToExtract(call.hint)
    /\ LET bits == Append(extracted, ReadBit(pixels, pixel_sequence[count + 1]))
       IN  IF EndsWithDelimiter(bits)
           THEN Return(binary_to_str(PayloadPart(bits)), "ok", "none")
           ELSE /\ extracted' = bits
                /\ count' = count + 1
                /\ UNCHANGED <<pc, ret, kind, cause, returned, pixels,
                               binary_watermark, pixel_sequence>>
    /\ UNCHANGED <<Image, disk, call, origin, nops, others>>

\* lines 196-198: the loop ends without a match
DetectLoopExit ==
    /\ pc = "det_loop"
    /\ count >= Len(pixel_sequence) \/ count >= MaxBitsToExtract(call.hint)
    /\ Return(None, "DecodeNotFound", "none")
    /\ UNCHANGED <<Image, disk, call, origin, nops, others>>

(***************************************************************************)
(* add_watermark_text / detect_watermark_text.  The text-blind-watermark   *)
(* library is outside the repository: what it embeds or extracts is a      *)
(* nondeterministic choice.                                                *)
(***************************************************************************)
\* what tbw.extract() may give back
Extracts == {<<233>>, <<>>}

\* a caller enters add_watermark_text(input, output, text, key)
StartAddText(input, output, text, key) ==
    /\ pc \in {"idle", "done"}
    /\ nops' = nops + 1
    /\ call' = [op |-> "add_text", input |-> input, output |-> output,
                text |-> text, key |-> key, hint |-> 0]
    /\ pc' = "text"
    /\ ret' = None
    /\ kind' = "none"
    /\ cause' = "none"
    /\ UNCHANGED <<Image, disk, origin, returned, locals>>

\* a caller enters detect_watermark_text(input, key)
StartDetectText(input, key) ==
    /\ pc \in {"idle", "done"}
    /\ nops' = nops + 1
    /\ call' = [op |-> "detect_text", input |-> input, output |-> "",
                text |-> <<>>, key |-> key, hint |-> 0]
    /\ pc' = "text"
    /\ ret' = None
    /\ kind' = "none"
    /\ cause' = "none"
    /\ UNCHANGED <<Image, disk, origin, returned, locals>>

\* lines 207-226 and 228-245: the body of either text function
TextStep ==
    /\ pc = "text"
    /\ LET file == disk[call.input]
       IN  IF call.op = "add_text"
           THEN IF ~TextBlindWatermark
                THEN Return(PyFalse, "MissingDependency", "none") /\ UNCHANGED disk
                ELSE IF file.kind = "none"
                THEN Return(PyFalse, "NotFound", "none") /\ UNCHANGED disk
                ELSE IF file.kind # "text" \/ call.key = Absent
                THEN Return(PyFalse, "UnexpectedFailure", "read") /\ UNCHANGED disk
                ELSE \E done \in BOOLEAN :
                        IF done
                        THEN /\ disk' = [disk EXCEPT ![call.output] = TextFile]
                             /\ Return(PyTrue, "ok", "none")
                        ELSE /\ Return(PyFalse, "UnexpectedFailure", "library")
                             /\ UNCHANGED disk
           ELSE /\ UNCHANGED disk
                /\ IF ~TextBlindWatermark
                   THEN Return(None, "MissingDependency", "none")
                   ELSE IF file.kind = "none"
                   THEN Return(PyFalse, "NotFound", "none")
                   ELSE IF file.kind # "text" \/ call.key = Absent
                   THEN Return(PyFalse, "UnexpectedFailure", "read")
                   ELSE \E out \in Extracts \cup {PyFalse} :
                           IF out = PyFalse
                           THEN Return(PyFalse, "UnexpectedFailure", "library")
                           ELSE Return(out, "ok", "none")
    /\ origin' = IF disk' # disk THEN Forgotten(origin, {call.output}) ELSE origin
    /\ UNCHANGED <<Image, call, nops, others>>

(***************************************************************************)
(* The front ends: api/main.py and cli.py.  A request is one the framework *)
(* hands to its endpoint function; requests are served one at a time.      *)
(***************************************************************************)
\* API requests or CLI runs in one behaviour
MaxRuns == 2

\* mutant: only None counts as false
TruthyNotNone(v) == v # None

\* bool(v) of a str-or-None value: None, False and "" are false
Truthy(v) == v \notin {None, PyFalse, <<>>}

\* str(uuid.uuid4()): 36 ASCII characters, "00000000-0000-4000-8000-000000000000"
Uuid ==
    [i \in 1..36 |-> IF i \in {9, 14, 19, 24} THEN 45
                     ELSE IF i = 15 THEN 52
                     ELSE IF i = 20 THEN 56
                     ELSE 48]

\* the key the environment may hold: not set, "", or "k1"
Environs == {Absent, <<>>, KeyK1}

Endpoints == {"image_add", "image_detect", "text_add", "text_detect", "root"}
AddEndpoints == {"image_add", "text_add"}
ImageEndpoints == {"image_add", "image_detect"}

\* lines 125-139 applied to the first n bits: the image the embedding loop
\* leaves
RECURSIVE Embedded(_, _, _, _)
Embedded(img, seq, bits, n) ==
    IF n = 0 THEN img
    ELSE WriteBit(Embedded(img, seq, bits, n - 1), seq[n], bits[n])

\* the 2 x 7 image after add_watermark_image(..., "", "k1"): the delimiter
\* alone, in the first 16 locations of the traversal
EmptyMarked ==
    LET img == Carrier(2, 7, "mixed")
    IN  Embedded(img, get_pixel_sequence(img.w, img.h, KeyK1), DELIMITER,
                 Len(DELIMITER))

\* the uploaded files: a 2 x 7 image, the same with an empty payload
\* embedded, a text
Uploads == {Carrier(2, 7, "mixed"), EmptyMarked, TextFile}

\* watermark_text of the form / -w of the command line: not given, "", "e-acute"
GivenTexts == {None, <<>>, <<233>>}

\* Form(200) / --max_len default
DefaultMaxLen == 200

NoRequest == [endpoint |-> "none", file |-> NoFile, watermark_text |-> None,
              max_len |-> 0]

NoBody == [key |-> "none", value |-> <<>>]

NoArgs == [action |-> "none", media_type |-> "none", input_path |-> NoPath,
           output_path |-> NoPath, watermark |-> None, max_len |-> 0]

\* no exit code yet
Running == -1

ApiIdle ==
    /\ WATERMARKER_MASTER_KEY = None
    /\ CORE_LIBS_AVAILABLE = TRUE
    /\ hpc = "down"
    /\ req = NoRequest
    /\ input_path = NoPath
    /\ output_path = NoPath
    /\ status = 0
    /\ detail = ""
    /\ body = NoBody
    /\ tasks = {}
    /\ created = {}

CliIdle ==
    /\ cpc = "off"
    /\ args = NoArgs
    /\ secret_key = None
    /\ watermark_to_embed = None
    /\ printed = ""
    /\ exit_code = Running

\* no front end runs
ServiceIdle ==
    /\ proc = "none"
    /\ environ = Absent
    /\ TextBlindWatermark = TRUE
    /\ ffmpeg = TRUE
    /\ nruns = 0
    /\ ApiIdle
    /\ CliIdle

\* None in [Image, TextBlindWatermark, ffmpeg]
LibraryMissing == ~(Image /\ TextBlindWatermark /\ ffmpeg)

\* the name mkstemp gives the copy of the upload
InputTemp(endpoint) ==
    IF endpoint \in ImageEndpoints THEN "tmp_input.png" ELSE "tmp_input.txt"

\* the name mkstemp gives the output
OutputTemp(endpoint) ==
    IF endpoint \in ImageEndpoints THEN "tmp_watermarked.png"
    ELSE "tmp_watermarked.txt"

\* an HTTPException leaves the endpoint function
Raise(code, why) ==
    /\ status' = code
    /\ detail' = why
    /\ hpc' = "done"

\* lifespan, before the yield
Lifespan ==
    /\ proc = "api"
    /\ hpc = "down"
    /\ CORE_LIBS_AVAILABLE' = IF LibraryMissing THEN FALSE ELSE CORE_LIBS_AVAILABLE
    /\ WATERMARKER_MASTER_KEY' = environ
    /\ hpc' = "ready"
    /\ UNCHANGED <<req, input_path, output_path, status, detail, body, tasks,
                   created>>
    /\ UNCHANGED <<coreVars, genVars, envVars, cliVars>>

\* request_logging_middleware hands a request to its endpoint function
Request ==
    /\ proc = "api"
    /\ hpc \in {"ready", "done"}
    /\ tasks = {}
    /\ nruns < MaxRuns
    /\ nruns' = nruns + 1
    /\ \E e \in Endpoints, f \in Uploads,
          t \in GivenTexts, m \in Hints \cup {DefaultMaxLen} :
          /\ e \notin AddEndpoints => t = None
          /\ m = DefaultMaxLen <=> e # "image_detect"
          /\ e = "root" => f = TextFile
          /\ req' = [endpoint |-> e, file |-> f, watermark_text |-> t,
                     max_len |-> m]
    /\ hpc' = "check"
    /\ input_path' = NoPath
    /\ output_path' = NoPath
    /\ status' = 0
    /\ detail' = ""
    /\ body' = NoBody
    /\ created' = {}
    /\ UNCHANGED <<WATERMARKER_MASTER_KEY, CORE_LIBS_AVAILABLE, tasks>>
    /\ UNCHANGED <<coreVars, genVars, proc, environ, TextBlindWatermark, ffmpeg,
                   cliVars>>

\* root
Root ==
    /\ hpc = "check"
    /\ req.endpoint = "root"
    /\ status' = 200
    /\ body' = [key |-> IF ~CORE_LIBS_AVAILABLE \/ ~Truthy(WATERMARKER_MASTER_KEY)
                        THEN "degraded" ELSE "running",
                value |-> <<>>]
    /\ hpc' = "done"
    /\ UNCHANGED <<WATERMARKER_MASTER_KEY, CORE_LIBS_AVAILABLE, req, input_path,
                   output_path, detail, tasks, created>>
    /\ UNCHANGED <<coreVars, genVars, envVars, cliVars>>

\* _check_service_ready(), the first statement of every watermark endpoint
CheckServiceReady ==
    /\ hpc = "check"
    /\ req.endpoint # "root"
    /\ IF ~CORE_LIBS_AVAILABLE
       THEN Raise(503, "Service unavailable: Core libraries missing.")
       ELSE IF ~Truthy(WATERMARKER_MASTER_KEY)
       THEN Raise(503, "Service unavailable.")
       ELSE /\ hpc' = "upload"
            /\ UNCHANGED <<status, detail>>
    /\ UNCHANGED <<WATERMARKER_MASTER_KEY, CORE_LIBS_AVAILABLE, req, input_path,
                   output_path, body, tasks, created>>
    /\ UNCHANGED <<coreVars, genVars, envVars, cliVars>>

\* input_path = await _process_uploaded_file(file, ...), and the except
\* branches of the endpoint when it raises
ProcessUploadedFile ==
    /\ hpc = "upload"
    /\ LET temp == InputTemp(req.endpoint)
       IN  \E outcome \in {"saved", "mkstemp raises", "copy raises"} :
              IF outcome = "saved"
              THEN /\ disk' = [disk EXCEPT ![temp] = req.file]
                   /\ origin' = Forgotten(origin, {temp})
                   /\ created' = created \cup {temp}
                   /\ input_path' = temp
                   /\ hpc' = IF req.endpoint \in AddEndpoints THEN "mkout" ELSE "call"
                   /\ UNCHANGED <<status, detail>>
              ELSE IF outcome = "copy raises"
              THEN \* the temporary file is made, and removed by line 85
                   /\ created' = created \cup {temp}
                   /\ Raise(500, "Error saving uploaded file")
                   /\ UNCHANGED <<disk, origin, input_path>>
              ELSE /\ Raise(500, "An unexpected error occurred")
                   /\ UNCHANGED <<disk, origin, input_path, created>>
    /\ UNCHANGED <<WATERMARKER_MASTER_KEY, CORE_LIBS_AVAILABLE, req, output_path,
                   body, tasks>>
    /\ UNCHANGED <<coreRun, genVars, envVars, cliVars>>

\* mutant: the except branch does not call _cleanup_files
MakeOutputFileLeaking ==
    /\ hpc = "mkout"
    /\ LET temp == OutputTemp(req.endpoint)
       IN  \E made \in BOOLEAN :
              IF made
              THEN /\ disk' = [disk EXCEPT ![temp] = Empty]
                   /\ origin' = Forgotten(origin, {temp})
                   /\ created' = created \cup {temp}
                   /\ output_path' = temp
                   /\ hpc' = "call"
                   /\ UNCHANGED <<status, detail>>
              ELSE /\ Raise(500, "An unexpected error occurred")
                   /\ UNCHANGED <<disk, origin, output_path, created>>
    /\ UNCHANGED <<WATERMARKER_MASTER_KEY, CORE_LIBS_AVAILABLE, req, input_path,
                   body, tasks>>
    /\ UNCHANGED <<coreRun, genVars, envVars, cliVars>>

\* temp_output_fd, output_path = tempfile.mkstemp(...); os.close(...)
MakeOutputFile ==
    /\ hpc = "mkout"
    /\ LET temp == OutputTemp(req.endpoint)
       IN  \E made \in BOOLEAN :
              IF made
              THEN /\ disk' = [disk EXCEPT ![temp] = Empty]
                   /\ origin' = Forgotten(origin, {temp})
                   /\ created' = created \cup {temp}
                   /\ output_path' = temp
                   /\ hpc' = "call"
                   /\ UNCHANGED <<status, detail>>
              ELSE \* except Exception: _cleanup_files(input_path, None)
                   /\ disk' = Removed(disk, {input_path})
                   /\ origin' = Forgotten(origin, {input_path})
                   /\ Raise(500, "An unexpected error occurred")
                   /\ UNCHANGED <<output_path, created>>
    /\ UNCHANGED <<WATERMARKER_MASTER_KEY, CORE_LIBS_AVAILABLE, req, input_path,
                   body, tasks>>
    /\ UNCHANGED <<coreRun, genVars, envVars, cliVars>>

\* the endpoint calls the core function
CallCore ==
    /\ hpc = "call"
    /\ LET text == IF Truthy(req.watermark_text) THEN req.watermark_text ELSE Uuid
       IN  IF req.endpoint = "image_add"
           THEN StartAdd(input_path, output_path, text, WATERMARKER_MASTER_KEY)
           ELSE IF req.endpoint = "image_detect"
           THEN StartDetect(input_path, WATERMARKER_MASTER_KEY, req.max_len)
           ELSE IF req.endpoint = "text_add"
           THEN StartAddText(input_path, output_path, text, WATERMARKER_MASTER_KEY)
           ELSE StartDetectText(input_path, WATERMARKER_MASTER_KEY)
    /\ hpc' = "wait"
    /\ UNCHANGED <<WATERMARKER_MASTER_KEY, CORE_LIBS_AVAILABLE, req, input_path,
                   output_path, status, detail, body, tasks, created>>
    /\ UNCHANGED <<genVars, envVars, cliVars>>

\* the statements after the core function has returned
Respond ==
    /\ hpc = "wait"
    /\ pc = "done"
    /\ IF req.endpoint \in AddEndpoints
       THEN IF ret = PyTrue /\ disk[output_path].kind \notin {"none", "empty"}
            THEN /\ tasks' = {input_path, output_path}
                 /\ status' = 200
                 /\ body' = [key |-> "file", value |-> <<>>]
                 /\ UNCHANGED <<disk, origin, detail>>
            ELSE /\ disk' = Removed(disk, {input_path, output_path})
                 /\ origin' = Forgotten(origin, {input_path, output_path})
                 /\ status' = 500
                 /\ detail' = "Failed to add watermark"
                 /\ UNCHANGED <<body, tasks>>
       ELSE /\ tasks' = {input_path}
            /\ status' = 200
            /\ body' = IF Truthy(ret)
                       THEN [key |-> "detected_watermark", value |-> ret]
                       ELSE [key |-> "message", value |-> <<>>]
            /\ UNCHANGED <<disk, origin, detail>>
    /\ hpc' = "done"
    /\ UNCHANGED <<WATERMARKER_MASTER_KEY, CORE_LIBS_AVAILABLE, req, input_path,
                   output_path, created>>
    /\ UNCHANGED <<coreRun, genVars, envVars, cliVars>>

\* the background task _cleanup_files(...), run once the response is sent
BackgroundCleanup ==
    /\ hpc = "done"
    /\ tasks # {}
    /\ disk' = Removed(disk, tasks)
    /\ origin' = Forgotten(origin, tasks)
    /\ tasks' = {}
    /\ UNCHANGED <<WATERMARKER_MASTER_KEY, CORE_LIBS_AVAILABLE, hpc, req,
                   input_path, output_path, status, detail, body, created>>
    /\ UNCHANGED <<coreRun, genVars, envVars, cliVars>>

\* the command lines tried
CliArgs ==
    {[action |-> a, media_type |-> m, input_path |-> i, output_path |-> o,
      watermark |-> w, max_len |-> MaxHint] :
        a \in {"add", "detect"}, m \in {"image", "text", "video"},
        i \in {"in.png", "out"}, o \in {NoPath, "out.png"}, w \in GivenTexts}

\* sys.exit(exit_code)
Exit(code, line) ==
    /\ exit_code' = code
    /\ printed' = line
    /\ cpc' = "exit"

\* python -m src.service.cli ...
CliRun ==
    /\ proc = "cli"
    /\ cpc \in {"off", "exit"}
    /\ nruns < MaxRuns
    /\ nruns' = nruns + 1
    /\ cpc' = "libs"
    /\ args' = NoArgs
    /\ secret_key' = None
    /\ watermark_to_embed' = None
    /\ printed' = ""
    /\ exit_code' = Running
    /\ UNCHANGED <<coreVars, genVars, proc, environ, TextBlindWatermark, ffmpeg,
                   apiVars>>

\* lines 36-39
CliCheckLibs ==
    /\ cpc = "libs"
    /\ IF LibraryMissing
       THEN Exit(1, "CLI Error: libraries missing")
       ELSE /\ cpc' = "key"
            /\ UNCHANGED <<printed, exit_code>>
    /\ UNCHANGED <<args, secret_key, watermark_to_embed>>
    /\ UNCHANGED <<coreVars, genVars, envVars, apiVars>>

\* lines 41-43
CliCheckKey ==
    /\ cpc = "key"
    /\ secret_key' = environ
    /\ IF ~Truthy(environ)
       THEN Exit(1, "")
       ELSE /\ cpc' = "parse"
            /\ UNCHANGED <<printed, exit_code>>
    /\ UNCHANGED <<args, watermark_to_embed>>
    /\ UNCHANGED <<coreVars, genVars, envVars, apiVars>>

\* lines 45-76: parse_args, the output path 'add' requires, the generated text
CliParseArgs ==
    /\ cpc = "parse"
    /\ \E a \in CliArgs :
          /\ a.action = "detect" => a.output_path = NoPath /\ a.watermark = None
          /\ args' = a
          /\ IF a.action = "add" /\ a.output_path = NoPath
             THEN \* parser.error(): exit code 2
                  /\ Exit(2, "error: Output path is required")
                  /\ UNCHANGED watermark_to_embed
             ELSE /\ watermark_to_embed' =
                        IF a.action = "add" /\ ~Truthy(a.watermark) THEN Uuid
                        ELSE a.watermark
                  /\ cpc' = "dispatch"
                  /\ UNCHANGED <<printed, exit_code>>
    /\ UNCHANGED secret_key
    /\ UNCHANGED <<coreVars, genVars, envVars, apiVars>>

\* lines 78-84 and 96-102: the call of the core function
CliDispatch ==
    /\ cpc = "dispatch"
    /\ args.media_type # "video"
    /\ IF args.action = "add"
       THEN IF args.media_type = "image"
            THEN StartAdd(args.input_path, args.output_path, watermark_to_embed,
                          secret_key)
            ELSE StartAddText(args.input_path, args.output_path,
                              watermark_to_embed, secret_key)
       ELSE IF args.media_type = "image"
            THEN StartDetect(args.input_path, secret_key, args.max_len)
            ELSE StartDetectText(args.input_path, secret_key)
    /\ cpc' = "wait"
    /\ UNCHANGED <<args, secret_key, watermark_to_embed, printed, exit_code>>
    /\ UNCHANGED <<genVars, envVars, apiVars>>

\* media_type "video": no branch calls the core, success / detected_wm keep
\* their initial False / None
CliVideo ==
    /\ cpc = "dispatch"
    /\ args.media_type = "video"
    /\ IF args.action = "add"
       THEN Exit(1, "CLI Error: Failed to add watermark")
       ELSE Exit(1, "CLI Info: No watermark detected")
    /\ UNCHANGED <<args, secret_key, watermark_to_embed>>
    /\ UNCHANGED <<coreVars, genVars, envVars, apiVars>>

\* lines 89-94 and 107-112: what main_cli makes of the value returned
CliReport ==
    /\ cpc = "wait"
    /\ pc = "done"
    /\ IF args.action = "add"
       THEN IF ret = PyTrue
            THEN Exit(0, "CLI Success: Watermark added")
            ELSE Exit(1, "CLI Error: Failed to add watermark")
       ELSE IF Truthy(ret)
            THEN Exit(0, "CLI Success: Detected watermark")
            ELSE Exit(1, "CLI Info: No watermark detected")
    /\ UNCHANGED <<args, secret_key, watermark_to_embed>>
    /\ UNCHANGED <<coreVars, genVars, envVars, apiVars>>

(***************************************************************************)
(* The generator applied on its own.                                       *)
(***************************************************************************)
\* largest width and height handed to the generator
MaxWidth == 4
MaxHeight == 4
\* calls of the generator in one behaviour
MaxGenCalls == 2

\* "", "Aa", "BB", "k1", "k2", "e-acute", "zzzzzzz" (whose fold wraps 2^32)
GenKeys == {<<>>, KeyAa, KeyBB, KeyK1, <<107, 50>>, <<195, 169>>,
            <<122, 122, 122, 122, 122, 122, 122>>}

GenIdle ==
    /\ gwidth = 0
    /\ gheight = 0
    /\ gkey = <<>>
    /\ gcalls = <<>>
    /\ gapicalls = <<>>

GenCall ==
    /\ Len(gcalls) < MaxGenCalls
    /\ gcalls' = Append(gcalls, get_pixel_sequence(gwidth, gheight, gkey))
    /\ UNCHANGED <<gwidth, gheight, gkey, gapicalls>>
    /\ UNCHANGED <<coreVars, svcVars>>

\* a call of the copy in api/watermarker.py
GenCallApi ==
    /\ Len(gapicalls) < MaxGenCalls
    /\ gapicalls' = Append(gapicalls, api_get_pixel_sequence(gwidth, gheight, gkey))
    /\ UNCHANGED <<gwidth, gheight, gkey, gcalls>>
    /\ UNCHANGED <<coreVars, svcVars>>

(***************************************************************************)
(* Specifications.                                                         *)
(***************************************************************************)
vars == <<coreVars, genVars, svcVars>>

\* the codec called directly, MaxOps operations one after another
CoreInit ==
    /\ Image \in BOOLEAN
    /\ disk \in {[p \in Paths |-> IF p = "in.png" THEN f ELSE NoFile] :
                    f \in Carriers \cup {Corrupt}}
    /\ CoreIdle
    /\ GenIdle
    /\ ServiceIdle

CallAdd ==
    /\ nops < MaxOps
    /\ \E input \in CorePaths, output \in OutPaths, text \in Payloads, key \in CoreKeys :
          StartAdd(input, output, text, key)
    /\ UNCHANGED others

CallDetect ==
    /\ nops < MaxOps
    /\ \E input \in CorePaths, key \in CoreKeys, hint \in Hints :
          StartDetect(input, key, hint)
    /\ UNCHANGED others

Next ==
    \/ CallAdd
    \/ CallDetect
    \/ AddBegin
    \/ AddLoopStep
    \/ AddLoopExit
    \/ AddLoopFault
    \/ AddSave
    \/ DetectBegin
    \/ DetectLoopStep
    \/ DetectLoopExit

Spec == CoreInit /\ [][Next]_vars

\* the generator on all small dimensions and keys
GenInit ==
    /\ gwidth \in 0..MaxWidth
    /\ gheight \in 0..MaxHeight
    /\ gkey \in GenKeys
    /\ gcalls = <<>>
    /\ gapicalls = <<>>
    /\ Image = TRUE
    /\ disk = [p \in Paths |-> NoFile]
    /\ CoreIdle
    /\ ServiceIdle

GenNext ==
    \/ GenCall
    \/ GenCallApi

SpecGen == GenInit /\ [][GenNext]_vars

\* a process that serves API requests, or runs of the command line
ServiceInit ==
    /\ Image \in BOOLEAN
    /\ \E img \in {Carrier(2, 7, "mixed"), EmptyMarked} :
          disk = [p \in Paths |-> IF p = "in.png" THEN img ELSE NoFile]
    /\ CoreIdle
    /\ GenIdle
    /\ proc \in {"api", "cli"}
    /\ environ \in Environs
    /\ TextBlindWatermark \in BOOLEAN
    /\ ffmpeg \in BOOLEAN
    /\ nruns = 0
    /\ ApiIdle
    /\ CliIdle

ServiceNext ==
    \/ Lifespan
    \/ Request
    \/ Root
    \/ CheckServiceReady
    \/ ProcessUploadedFile
    \/ MakeOutputFile
    \/ CallCore
    \/ Respond
    \/ BackgroundCleanup
    \/ CliRun
    \/ CliCheckLibs
    \/ CliCheckKey
    \/ CliParseArgs
    \/ CliDispatch
    \/ CliVideo
    \/ CliReport
    \/ AddBegin
    \/ AddLoopStep
    \/ AddLoopExit
    \/ AddLoopFault
    \/ AddSave
    \/ DetectBegin
    \/ DetectLoopStep
    \/ DetectLoopExit
    \/ TextStep

SpecService == ServiceInit /\ [][ServiceNext]_vars

\* a step of an endpoint function, from its first statement to its response
HandlerStep ==
    \/ Root
    \/ CheckServiceReady
    \/ ProcessUploadedFile
    \/ MakeOutputFile
    \/ CallCore
    \/ AddLoopStep
    \/ AddLoopExit
    \/ AddLoopFault
    \/ AddSave
    \/ DetectLoopStep
    \/ DetectLoopExit
    \/ TextStep
    \/ Respond

\* the steps AddBegin and DetectBegin, told by where they take pc: each is
\* enabled wherever pc is at its label, and leaves the label
BeginStep ==
    /\ pc \in {"add_begin", "det_begin"}
    /\ pc' \in {"add_loop", "det_loop", "done"}

\* the positions every step of an endpoint function or of the background
\* task moves
progress == <<hpc, pc, count, tasks>>

\* the server keeps running: an endpoint function called runs to its
\* response, and the tasks added to background_tasks run once the response
\* is sent
SpecServiceFair ==
    /\ SpecService
    /\ WF_progress(HandlerStep)
    /\ WF_pc(BeginStep)
    /\ WF_progress(BackgroundCleanup)

\* embeds one on top of the other, then a detection
MaxChainOps == 3

\* "", 'DEL' (1 byte), 'euro' (3 bytes)
ChainPayloads == {<<>>, <<127>>, <<8364>>}

ChainInit ==
    /\ Image = TRUE
    /\ disk = [p \in Paths |-> IF p = "in.png" THEN Carrier(2, 7, "mixed") ELSE NoFile]
    /\ CoreIdle
    /\ GenIdle
    /\ ServiceIdle

\* an embed into the original image or into the output of an earlier embed
ChainAdd ==
    /\ nops < MaxChainOps
    /\ \E input \in {"in.png", "out.png", "out.jpg"}, output \in {"out.png", "out.jpg"},
          text \in ChainPayloads :
          /\ disk[input].kind = "image"
          /\ StartAdd(input, output, text, KeyK1)
    /\ UNCHANGED others

\* a detection on the output of an embed
ChainDetect ==
    /\ nops < MaxChainOps
    /\ \E input \in {"out.png", "out.jpg"}, hint \in Hints :
          /\ disk[input].kind = "image"
          /\ StartDetect(input, KeyK1, hint)
    /\ UNCHANGED others

ChainNext ==
    \/ ChainAdd
    \/ ChainDetect
    \/ AddBegin
    \/ AddLoopStep
    \/ AddLoopExit
    \/ AddLoopFault
    \/ AddSave
    \/ DetectBegin
    \/ DetectLoopStep
    \/ DetectLoopExit

SpecChain == ChainInit /\ [][ChainNext]_vars

(***************************************************************************)
(* Claims.                                                                 *)
(***************************************************************************)
AddDone == pc = "done" /\ call.op = "add"

DetectDone == pc = "done" /\ call.op = "detect"

\* the embed that wrote the file a detection has read
Source == origin[call.input]

\* the traversal order of an image under a key
Order(img, key) == get_pixel_sequence(img.w, img.h, key)

\* the first n bits along seq are the first n bits of bits
HoldsBits(img, seq, bits, n) == \A i \in 1..n : ReadBit(img, seq[i]) = bits[i]

\* the channel value of a traversal location
Channel(img, loc) == img.px[PixelIndex(img, loc)][loc[3] + 1]

\* C1 (as stated): a detection with the embedding key and a hint of at
\* least the payload's length in characters returns the embedded payload.
C1_RoundTrip ==
    (DetectDone /\ Source.set /\ Source.key = call.key
        /\ call.hint >= Len(Source.text))
    => ret = Source.text

\* C1 (amended): the round trip holds when the output was saved in a lossless
\* format and the payload has at most 2 UTF-8 bytes per character of the hint,
\* so that the delimiter lies inside the window of hint*16 + 16 bits.
C1_RoundTripInWindow ==
    (DetectDone /\ Source.set /\ Source.key = call.key
        /\ call.hint >= Len(Source.text)
        /\ Source.lossless
        /\ Len(Utf8Encode(Source.text)) <= 2 * call.hint)
    => ret = Source.text

\* a three-byte character comes back when the hint leaves a margin of one
C1_Witness ==
    /\ DetectDone /\ Source.set /\ Source.key = call.key /\ Source.lossless
    /\ Source.text = <<8364>>
    /\ call.hint = 2
    /\ ret = <<8364>>

\* the 32-bit seed of a two-byte key, written out
Seed2(key) == key[1] * 31 + key[2]

\* C2 (as stated): a detection with a key other than the embedding key never
\* returns the embedded payload.
C2_KeySensitivity ==
    (DetectDone /\ Source.set /\ Source.key # call.key)
    => ret # Source.text

\* C2 (amended): the key acts only through its folded seed: a detection with
\* another key that folds to the same seed returns the embedded payload, as
\* the embedding key does.
C2_SeedDecides ==
    (DetectDone /\ Source.set /\ Source.key # call.key
        /\ Seed2(Source.key) = Seed2(call.key)
        /\ Source.lossless
        /\ Len(Utf8Encode(Source.text)) <= 2 * call.hint)
    => ret = Source.text

\* "BB" reads what "Aa" embedded
C2_Witness ==
    /\ DetectDone /\ Source.set /\ Source.lossless
    /\ Source.key = KeyAa /\ call.key = KeyBB
    /\ Source.text = <<233>>
    /\ ret = <<233>>

\* seq holds every slot of a width x height image exactly once
IsPermutationOfSlots(seq, width, height) ==
    /\ Len(seq) = width * height * 3
    /\ \A x \in 0..(width - 1), y \in 0..(height - 1), c \in 0..2 :
          Cardinality({i \in 1..Len(seq) : seq[i] = <<x, y, c>>}) = 1

\* C3: every call of the generator returns a permutation of all
\* width*height*3 slots, and calls with the same arguments return the same
\* sequence.
C3_GeneratorPermutation ==
    \A i \in 1..Len(gcalls) :
        /\ IsPermutationOfSlots(gcalls[i], gwidth, gheight)
        /\ gcalls[i] = gcalls[1]

\* two calls on a 3 x 2 image, whose order is not the row-major one
C3_Witness ==
    /\ Len(gcalls) = 2
    /\ gwidth = 3 /\ gheight = 2
    /\ gcalls[2] # Locations(3, 2)

\* the bits an embed of the call's text needs
NeededBits == Len(Utf8Encode(call.text)) * 8 + 16

\* C4: an add that has an image and an encodable payload fails with a
\* capacity error when payload bits + 16 > width*height*3, and otherwise
\* succeeds (unless an exception ends the loop or the save).
C4_CapacityBoundary ==
    (AddDone /\ kind \notin {"MissingDependency", "NotFound"}
        /\ cause \notin {"open", "encode"})
    => /\ NeededBits > Slots(disk[call.input])
            => ret = PyFalse /\ kind = "InsufficientCapacity"
       /\ NeededBits <= Slots(disk[call.input])
            => ret = PyTrue \/ cause \in {"loop", "save"}

\* a payload of exactly width*height*3 - 16 bits has been embedded
C4_Witness ==
    /\ AddDone /\ ret = PyTrue
    /\ Slots(disk[call.input]) > 0
    /\ NeededBits = Slots(disk[call.input])

\* C5: pixels are modified only after the capacity check has passed, the disk
\* changes only in the save step that follows the embedding of all bits and
\* returns True, and a run that returns False leaves the disk as it was.
C5_NoPartialPersist ==
    /\ [](pc \in {"add_loop", "add_save"}
            => /\ Len(binary_watermark) <= Slots(pixels)
               /\ Len(binary_watermark) = NeededBits)
    /\ [][disk' # disk
            => /\ pc = "add_save"
               /\ count = Len(binary_watermark)
               /\ pc' = "done"
               /\ ret' = PyTrue]_vars
    /\ [][(pc # "done" /\ pc' = "done" /\ call.op = "add" /\ ret' = PyFalse)
            => disk' = disk]_vars

\* an exception in the loop has ended a run, and the output was not written
C5_Witness ==
    /\ AddDone /\ ret = PyFalse /\ cause = "loop"
    /\ disk[call.output].kind = "none"

\* C6 (as stated): after a successful add, the saved image holds, along the
\* traversal order, the payload bits followed by the delimiter.
C6_SuccessFullEmbed ==
    (AddDone /\ ret = PyTrue)
    => HoldsBits(disk[call.output], Order(disk[call.output], call.key),
                 str_to_binary(call.text) \o DELIMITER, NeededBits)

\* C6 (amended): every bit written so far in a run still reads back (no
\* write overwrites an earlier one), the image handed to save holds all the
\* bits, and the saved image holds them when the output format is lossless.
C6_FullEmbedLossless ==
    /\ pc \in {"add_loop", "add_save"}
          => HoldsBits(pixels, pixel_sequence, binary_watermark, count)
    /\ pc = "add_save"
          => /\ count = NeededBits
             /\ binary_watermark = str_to_binary(call.text) \o DELIMITER
    /\ (AddDone /\ ret = PyTrue /\ ~Lossy(Ext(call.output)))
          => HoldsBits(disk[call.output], Order(disk[call.output], call.key),
                       str_to_binary(call.text) \o DELIMITER, NeededBits)

\* a three-byte payload has been embedded and saved as PNG
C6_Witness ==
    /\ AddDone /\ ret = PyTrue
    /\ call.output = "out.png"
    /\ call.text = <<8364>>

\* the bits of the first n traversal locations
Stream(img, seq, n) == [i \in 1..n |-> ReadBit(img, seq[i])]

\* the positions of the window at which the last 16 bits read are the delimiter
Hits(stream) ==
    {p \in 16..Len(stream) : SubSeq(stream, p - 15, p) = DELIMITER}

\* what the claim says a detection returns
WindowResult(img, key, hint) ==
    LET n == Min(hint * 8 * 2 + 16, Slots(img))
        stream == Stream(img, Order(img, key), n)
    IN  IF Hits(stream) = {} THEN None
        ELSE LET first == CHOOSE p \in Hits(stream) : \A q \in Hits(stream) : p <= q
             IN  binary_to_str(SubSeq(stream, 1, first - 16))

\* C7: a detection reads at most min(hint*16 + 16, width*height*3) locations
\* and returns the text before the first delimiter match in that window, or
\* None when the window has no match.
C7_DecodeWindow ==
    /\ pc = "det_loop"
          => /\ count = Len(extracted)
             /\ count <= Min(call.hint * 8 * 2 + 16, Slots(pixels))
    /\ (DetectDone /\ kind \in {"ok", "DecodeNotFound"})
          => ret = WindowResult(disk[call.input], call.key, call.hint)

\* the delimiter of a two-byte payload ends on the last bit of the window
C7_Witness ==
    /\ DetectDone /\ kind = "ok"
    /\ call.hint = 1
    /\ ret = <<233>>

\* src and dst differ at most in the first n traversal locations, where dst
\* holds the first n bits of bits
OnlyFirst(src, dst, seq, bits, n) ==
    /\ dst.w = src.w /\ dst.h = src.h
    /\ \A i \in 1..Len(seq) :
          IF i <= n THEN ReadBit(dst, seq[i]) = bits[i]
          ELSE Channel(dst, seq[i]) = Channel(src, seq[i])

\* C8 (as stated): an add of the empty string changes only the first 16
\* traversal locations, which then hold the delimiter, and a detection with
\* the same key returns the empty string.
C8_EmptyPayload ==
    /\ (AddDone /\ ret = PyTrue /\ call.text = <<>> /\ call.input # call.output)
          => OnlyFirst(disk[call.input], disk[call.output],
                       Order(disk[call.input], call.key), DELIMITER, 16)
    /\ (DetectDone /\ Source.set /\ Source.text = <<>> /\ Source.key = call.key)
          => ret = <<>>

\* C8 (amended): the same, when the output format is lossless.
C8_EmptyPayloadLossless ==
    /\ (AddDone /\ ret = PyTrue /\ call.text = <<>> /\ call.input # call.output
           /\ ~Lossy(Ext(call.output)))
          => OnlyFirst(disk[call.input], disk[call.output],
                       Order(disk[call.input], call.key), DELIMITER, 16)
    /\ (DetectDone /\ Source.set /\ Source.text = <<>> /\ Source.key = call.key
           /\ Source.lossless)
          => ret = <<>>

\* the empty string comes back from a window of exactly 16 bits
C8_Witness ==
    /\ DetectDone /\ Source.set /\ Source.lossless
    /\ Source.text = <<>> /\ Source.key = call.key
    /\ call.hint = 0
    /\ ret = <<>>

\* C9: the value add returns tells the failure kinds apart: two runs that
\* ended in different kinds returned different values.
C9_TypedErrors ==
    \A a \in returned, b \in returned : a[1] # b[1] => a[2] # b[2]

\* the secret key is not configured: the variable is not set, or is empty
Unconfigured == environ \in {Absent, <<>>}

\* C10: when the key variable is absent or empty at process start, no core
\* operation is ever entered; every request to a watermark endpoint ends with
\* status 503 without a temporary file having been made for the upload, and
\* every run of the CLI exits with code 1 without parsing or dispatching.
C10_UnconfiguredRefusal ==
    Unconfigured =>
        /\ nops = 0
        /\ pc = "idle"
        /\ hpc \notin {"upload", "mkout", "call", "wait"}
        /\ created = {}
        /\ \A p \in TempPaths : disk[p] = NoFile
        /\ (hpc = "done" /\ req.endpoint # "root") => status = 503
        /\ cpc \notin {"parse", "dispatch", "wait"}
        /\ cpc = "exit" => exit_code = 1

\* every library is there and the key is the empty string: a second request
\* to the image add endpoint has been refused for the key alone
C10_Witness ==
    /\ environ = <<>>
    /\ ~LibraryMissing
    /\ nruns = 2
    /\ hpc = "done"
    /\ req.endpoint = "image_add"
    /\ status = 503
    /\ detail = "Service unavailable."

\* dst differs from src at most in the low bit of the channels at the first
\* n traversal locations
SameButLowBits(src, dst, seq, n) ==
    /\ dst.w = src.w /\ dst.h = src.h
    /\ \A i \in 1..Len(seq) :
          IF i <= n THEN Channel(dst, seq[i]) \div 2 = Channel(src, seq[i]) \div 2
          ELSE Channel(dst, seq[i]) = Channel(src, seq[i])

\* one write of the loop: the selected channel becomes (old & ~1) | bit and
\* nothing else of the image changes
OneBitWritten ==
    LET loc == pixel_sequence[count + 1]
        bit == binary_watermark[count + 1]
    IN  /\ Channel(pixels', loc) = (Channel(pixels, loc) \div 2) * 2 + bit
        /\ pixels'.w = pixels.w /\ pixels'.h = pixels.h
        /\ \A i \in 1..Len(pixels.px), c \in 1..3 :
              <<i, c>> # <<PixelIndex(pixels, loc), loc[3] + 1>>
                  => pixels'.px[i][c] = pixels.px[i][c]

\* C11 (as stated): after a successful add, the output image differs from the
\* input only in the low bit of the channels at the first len(binaryWatermark)
\* traversal locations.
C11_EncodeFrame ==
    (AddDone /\ ret = PyTrue /\ call.input # call.output)
    => SameButLowBits(disk[call.input], disk[call.output],
                      Order(disk[call.input], call.key), NeededBits)

\* C11 (amended): every write of the loop changes one channel of one pixel to
\* (old & ~1) | bit; the image in memory differs from the input only in the
\* low bit of the locations written so far; and so does the saved image when
\* the output format is lossless.
C11_EncodeFrameLossless ==
    /\ [][(pc = "add_loop" /\ count' = count + 1) => OneBitWritten]_vars
    /\ [](pc \in {"add_loop", "add_save"}
             => SameButLowBits(disk[call.input], pixels, pixel_sequence, count))
    /\ []((AddDone /\ ret = PyTrue /\ call.input # call.output
             /\ ~Lossy(Ext(call.output)))
             => SameButLowBits(disk[call.input], disk[call.output],
                               Order(disk[call.input], call.key), NeededBits))

\* a two-byte payload has been embedded into a 'mixed' image and saved as
\* PNG, and the output differs from the input
C11_Witness ==
    /\ AddDone /\ ret = PyTrue
    /\ call.input = "in.png" /\ call.output = "out.png"
    /\ call.text = <<233>>
    /\ disk["in.png"].px[1] # <<255, 255, 255>>
    /\ disk["out.png"] # disk["in.png"]

\* the shuffle of the row-major, channel-minor list of (x, y, channel) triples
\* by a generator freshly seeded with the folded seed
SingleShuffle(width, height, key) ==
    Shuffle(Locations(width, height), RngSeed(SeedOf(key)))[1]

\* C12: every sequence _get_pixel_sequence returns, in the core and in its
\* copy under api/, is the single shuffle of the (x, y, channel) list by the
\* freshly seeded generator: no draw is taken before that shuffle.
C12_PinnedTraversal ==
    /\ \A i \in 1..Len(gcalls) :
          gcalls[i] = SingleShuffle(gwidth, gheight, gkey)
    /\ \A i \in 1..Len(gapicalls) :
          gapicalls[i] = SingleShuffle(gwidth, gheight, gkey)

\* (seed * 31 + byte) mod 2^32 on the four bytes of seed, lowest first
RefFoldStep(l, byte) ==
    LET c0 == (l[1] * 31) + byte
        c1 == (l[2] * 31) + (c0 \div 256)
        c2 == (l[3] * 31) + (c1 \div 256)
        c3 == (l[4] * 31) + (c2 \div 256)
    IN  <<c0 % 256, c1 % 256, c2 % 256, c3 % 256>>

\* the fold of the first n bytes of key, starting from 0
RECURSIVE RefFold(_, _)
RefFold(key, n) ==
    IF n = 0 THEN <<0, 0, 0, 0>> ELSE RefFoldStep(RefFold(key, n - 1), key[n])

\* the folded value as <<high 16 bits, low 16 bits>>
RefSeed(key) ==
    LET l == RefFold(key, Len(key))
    IN  <<(l[4] * 256) + l[3], (l[2] * 256) + l[1]>>

\* C13: the seed of every call is the fold seed = (seed*31 + byte) mod 2^32 of
\* the key's bytes in their order, starting from 0; it lies in [0, 2^32); the
\* empty key gives 0; and a key with the same seed gives the same sequence.
C13_SeedFolding ==
    \A i \in 1..Len(gcalls) :
        LET seed == SeedOf(gkey)
        IN  /\ seed[1] \in 0..65535 /\ seed[2] \in 0..65535
            /\ seed = RefSeed(gkey)
            /\ gkey = <<>> => seed = <<0, 0>>
            /\ \A k \in GenKeys :
                  SeedOf(k) = seed
                      => gcalls[i] = get_pixel_sequence(gwidth, gheight, k)

\* the key "zzzzzzz", whose fold passes 2^32 and ends at 3287 * 65536 + 64186,
\* has been used on a 3 x 2 image
C13_Witness ==
    /\ Len(gcalls) = 1
    /\ gkey = <<122, 122, 122, 122, 122, 122, 122>>
    /\ SeedOf(gkey) = <<3287, 64186>>
    /\ gwidth = 3 /\ gheight = 2

\* a detection has read, with the embedding key and a window that holds the
\* payload and the delimiter, an image that carries two or more embeds under
\* that key, one on top of the other
ChainDetected ==
    /\ DetectDone
    /\ Source.set /\ Source.key = call.key
    /\ Source.chain >= 2
    /\ Len(Utf8Encode(Source.text)) <= 2 * call.hint

\* C14 (as stated): after embeds applied one after another to the same image
\* with the same key, a detection with that key and a sufficient hint returns
\* the payload of the last embed.
C14_LastEmbedWins == ChainDetected => ret = Source.text

\* C14 (amended): the same, when the last embed was saved in a lossless
\* format.
C14_LastLosslessEmbedWins ==
    (ChainDetected /\ Source.lossless) => ret = Source.text

\* a one-byte payload embedded over a three-byte one has come back: the old
\* delimiter still lies behind the new one, inside the window
C14_Witness ==
    /\ ChainDetected /\ Source.lossless
    /\ Source.text = <<127>>
    /\ Source.longest = 3
    /\ call.hint = 2
    /\ ret = <<127>>

\* the image-detect endpoint has answered after detect_watermark_image
\* returned
ApiDetectReported ==
    /\ hpc = "done" /\ req.endpoint = "image_detect"
    /\ body # NoBody
    /\ pc = "done" /\ call.op = "detect"

\* the command line has ended after detect_watermark_image returned
CliDetectReported ==
    /\ cpc = "exit"
    /\ args.action = "detect" /\ args.media_type = "image"
    /\ pc = "done" /\ call.op = "detect"

\* C15: the command line and the image-detect endpoint report a detected
\* watermark whenever detect_watermark_image returned a string, the empty
\* string included, and report that none was detected (exit code 1) only
\* when it returned None.
C15_DetectionReporting ==
    /\ ApiDetectReported =>
          IF ret = None THEN body.key = "message"
          ELSE body = [key |-> "detected_watermark", value |-> ret]
    /\ CliDetectReported =>
          IF ret = None
          THEN exit_code = 1 /\ printed = "CLI Info: No watermark detected"
          ELSE exit_code = 0 /\ printed = "CLI Success: Detected watermark"

\* the image add endpoint has left its function, with a response or an error
AddImageEnded == hpc = "done" /\ req.endpoint = "image_add"

====
